---- MODULE Spec2Model ----
(***************************************************************************)
(* RenderContext of blackjack (src/src/render_context.rs): the resource    *)
(* registry, the camera, surface reconfiguration and the per-frame render  *)
(* graph with the zoom / pixels-per-point arithmetic of the nested UI.     *)
(*                                                                         *)
(* f32 values are modelled bit-exactly for positive normal numbers: the    *)
(* pair <<m, e>> with 2^23 <= m < 2^24 stands for m * 2^e, and every       *)
(* product and quotient is rounded to nearest, ties to even, as IEEE 754   *)
(* binary32 arithmetic does.  All intermediate integers stay below 2^31.   *)
(***************************************************************************)
EXTENDS Integers, Sequences, FiniteSets, TLC

\* ------------------------------------------------------------------ f32

\* f32 has a 24 bit significand: 2^23 <= m < 2^24.
MantHi == 2^24
MantLo == 2^23
Half12 == 2^12

RECURSIVE Norm(_, _)
\* The float m * 2^e for an integer 0 < m < 2^24: shifted left until the
\* leading bit is bit 23 (exact, nothing is rounded).
Norm(m, e) == IF m >= MantLo THEN <<m, e>> ELSE Norm(2 * m, e - 1)

\* Rounds the significand q with the discarded part rem out of unit
\* (0 <= rem < unit) to nearest, ties to even, and renormalises when the
\* significand carries out to 2^24.
RoundEven(q, rem, unit, e) ==
    LET up == (2 * rem > unit) \/ (2 * rem = unit /\ q % 2 = 1)
        q1 == IF up THEN q + 1 ELSE q
    IN  IF q1 = MantHi THEN <<MantLo, e + 1>> ELSE <<q1, e>>

\* `u32 as f32` for 0 < n < 2^24 (exact in that range).
ToF32(n) == Norm(n, 0)

\* a * b in f32.  The 48 bit product of the significands is formed in two
\* 24 bit limbs hi * 2^24 + lo from 12 bit halves.
FMul(a, b) ==
    LET a1 == a[1] \div Half12
        a0 == a[1] % Half12
        b1 == b[1] \div Half12
        b0 == b[1] % Half12
        mid == a1 * b0 + a0 * b1
        low == (mid % Half12) * Half12 + a0 * b0
        lo == low % MantHi
        hi == a1 * b1 + (mid \div Half12) + (low \div MantHi)
        e == a[2] + b[2]
    IN  IF hi >= MantLo
        THEN RoundEven(hi, lo, MantHi, e + 24)
        ELSE RoundEven(2 * hi + (lo \div MantLo), lo % MantLo, MantLo, e + 23)

RECURSIVE LongDiv(_, _, _, _)
\* k steps of binary long division: <<floor(q0 * 2^k + r * 2^k / d), rest>>.
LongDiv(q, r, d, k) ==
    IF k = 0 THEN <<q, r>>
    ELSE IF 2 * r >= d THEN LongDiv(2 * q + 1, 2 * r - d, d, k - 1)
         ELSE LongDiv(2 * q, 2 * r, d, k - 1)

\* a / b in f32.
FDiv(a, b) ==
    LET big == a[1] >= b[1]
        k == IF big THEN 23 ELSE 24
        qr == LongDiv(IF big THEN 1 ELSE 0,
                      IF big THEN a[1] - b[1] ELSE a[1], b[1], k)
    IN  RoundEven(qr[1], qr[2], b[1], a[2] - b[2] - k)

\* a < b for positive normalised floats.
FLess(a, b) == a[2] < b[2] \/ (a[2] = b[2] /\ a[1] < b[1])

\* `f32 as u32`: truncation toward zero (the values of this model are far
\* below u32::MAX, where the cast saturates).
AsU32(a) ==
    IF a[2] >= 0 THEN a[1] * 2^a[2]
    ELSE IF a[2] <= -24 THEN 0
    ELSE a[1] \div 2^(-a[2])

\* f32::round followed by the cast: half away from zero.
RoundU32(a) ==
    IF a[2] >= 0 THEN a[1] * 2^a[2]
    ELSE IF a[2] < -24 THEN 0
    ELSE (a[1] + 2^(-a[2] - 1)) \div 2^(-a[2])

One == ToF32(1)
Two == ToF32(2)

NoF32 == <<0, 0>>

\* ------------------------------------------------------------ the state

VARIABLES
    surface_config,   \* what rend3::configure_surface last set on `surface`
    texture_format,   \* RenderContext::texture_format
    aspect_ratio,     \* the renderer's camera aspect ratio (f32)
    camera_view,      \* the view matrix given to set_camera_data
    data_core_locked, \* renderer.data_core is held by this subsystem
    renderer_objects, \* the renderer's objects, by handle: what was added
                      \* and how often its ResourceHandle was dropped
    renderer_lights,  \* the same for directional lights
    objects,          \* RenderContext::objects (handles)
    lights,           \* RenderContext::lights (handles)
    graph_ppp,        \* pixels_per_point the nested egui context lays out
                      \* and tessellates with
    graph_new_ppp,    \* the value set_pixels_per_point left for the start
                      \* of the next egui frame (NoF32: none)
    in_frame,         \* both egui platforms are between begin_frame and
                      \* end_frame
    frame,            \* what the last render_frame did
    prev,             \* the nested-UI part of the render_frame before it
    last_call         \* the last operation called on the RenderContext

vars == <<surface_config, texture_format, aspect_ratio, camera_view,
          data_core_locked, renderer_objects, renderer_lights, objects,
          lights, graph_ppp, graph_new_ppp, in_frame, frame, prev,
          last_call>>

surface_vars == <<surface_config, texture_format>>
registry_vars == <<renderer_objects, renderer_lights, objects, lights>>
egui_vars == <<graph_ppp, graph_new_ppp, in_frame>>
frame_vars == <<frame, prev>>

\* ---------------------------------------------------------- the inputs

\* Bounds on what the renderer is asked to hold.
MaxObjects == 3
MaxLights == 2

\* winit window sizes in physical pixels.
WindowSizes == {<<800, 600>>, <<1920, 1080>>}
\* window.scale_factor() and the main egui context's pixels_per_point.
ScaleFactors == {One, Two}
\* surface.get_preferred_format
Formats == {"Bgra8UnormSrgb"}
\* app_viewports.view_3d.rect.size() in points: (800, 600), (500.5, 333).
View3dSizes == {<<ToF32(800), ToF32(600)>>, <<Norm(1001, -1), ToF32(333)>>}
\* app_viewports.node_graph.rect.size() in points: (800, 600),
\* (401.5, 300.75).
NodeGraphSizes == {<<ToF32(800), ToF32(600)>>, <<Norm(803, -1), Norm(1203, -2)>>}
\* zoom_level: 1, 2 and the two f32 values just below 2.
ZoomLevels == {One, Two, <<MantHi - 2, -23>>, <<MantHi - 1, -23>>}
FrameInputs == [view_3d : View3dSizes, node_graph : NodeGraphSizes,
                ppp : ScaleFactors, zoom : ZoomLevels]
Meshes == {"cube"}
PrebuiltObjects == {[mesh |-> "cube", material |-> "user", transform |-> "moved"]}
DirectionalLights == {"sun"}
ViewMatrices == {"identity"}

\* A call as last_call keeps it; `again` says that an on_resize repeats the
\* on_resize right before it, with the same width and height.
Call(op, w, h) == [op |-> op, w |-> w, h |-> h, again |-> FALSE]

NoFrame ==
    [rendered |-> FALSE, after |-> "none", aspect_before |-> NoF32,
     view_3d |-> <<NoF32, NoF32>>,
     node_graph |-> <<NoF32, NoF32>>, ppp |-> NoF32, zoom |-> NoF32,
     calls |-> <<>>, ready |-> FALSE, graph |-> [state |-> "none", nodes |-> <<>>],
     viewport_res |-> <<0, 0>>, resize |-> <<0, 0, NoF32>>,
     reported_scale |-> NoF32, target_res |-> <<0, 0>>,
     tess_scale |-> NoF32, clip_scale |-> NoF32, submissions |-> <<>>]

NoPrev ==
    [rendered |-> FALSE, node_graph |-> <<NoF32, NoF32>>, ppp |-> NoF32,
     zoom |-> NoF32, resize |-> <<0, 0, NoF32>>, reported_scale |-> NoF32,
     target_res |-> <<0, 0>>, clip_scale |-> NoF32]

\* ------------------------------------------------- RenderContext::new

\* The calls new makes on renderer.data_core, in order: lock(), the two
\* routines built under the guard, drop(data_core).
new_data_core_span == <<"lock", "PbrRoutine::new", "TonemappingRoutine::new", "drop">>

RECURSIVE HeldAfter(_, _)
\* Whether the data_core guard is held after the calls of `span`.
HeldAfter(held, span) ==
    IF span = <<>> THEN held
    ELSE HeldAfter(IF Head(span) = "lock" THEN TRUE
                   ELSE IF Head(span) = "drop" THEN FALSE
                   ELSE held, Tail(span))

\* The RenderContext new(window) returns, for a window of inner size
\* window_size and scale factor scale_factor whose surface prefers `format`.
new(window_size, scale_factor, format) ==
    [surface_config |-> [format |-> format, width |-> window_size[1],
                         height |-> window_size[2], present_mode |-> "Mailbox"],
     texture_format |-> format,
     aspect_ratio |-> FDiv(ToF32(window_size[1]), ToF32(window_size[2])),
     data_core_locked |-> HeldAfter(FALSE, new_data_core_span),
     graph_egui_routine |-> <<window_size[1], window_size[2], scale_factor>>,
     objects |-> <<>>,
     lights |-> <<>>]

\* The state new leaves.  No frame has been rendered, the camera is the
\* renderer's default, and the nested egui context still has the window's
\* scale factor as its pixels_per_point.
Init ==
    \E window_size \in WindowSizes, scale_factor \in ScaleFactors, format \in Formats :
        LET ctx == new(window_size, scale_factor, format) IN
        /\ surface_config = ctx.surface_config
        /\ texture_format = ctx.texture_format
        /\ aspect_ratio = ctx.aspect_ratio
        /\ camera_view = "default"
        /\ data_core_locked = ctx.data_core_locked
        /\ renderer_objects = <<>>
        /\ renderer_lights = <<>>
        /\ objects = ctx.objects
        /\ lights = ctx.lights
        /\ graph_ppp = scale_factor
        /\ graph_new_ppp = NoF32
        /\ in_frame = FALSE
        /\ frame = [NoFrame EXCEPT !.resize = ctx.graph_egui_routine]
        /\ prev = NoPrev
        /\ last_call = Call("new", window_size[1], window_size[2])

\* ------------------------------------------------------ the registry

\* A clear that forgets the handles without dropping them.
Dropped_forgotten(table, handles) == table

Dropped(table, handles) ==
    [h \in DOMAIN table |->
        IF \E i \in DOMAIN handles : handles[i] = h
        THEN [table[h] EXCEPT !.drops = @ + 1]
        ELSE table[h]]

\* A clear_objects that empties the lights with the objects.
clear_objects_and_lights ==
    /\ renderer_objects' = Dropped(renderer_objects, objects)
    /\ renderer_lights' = Dropped(renderer_lights, lights)
    /\ objects' = <<>>
    /\ lights' = <<>>
    /\ last_call' = Call("clear_objects", 0, 0)
    /\ UNCHANGED <<surface_vars, aspect_ratio, camera_view, data_core_locked,
                   egui_vars, frame_vars>>

\* clear_objects: Vec::clear drops every handle of the list.
clear_objects ==
    /\ renderer_objects' = Dropped(renderer_objects, objects)
    /\ objects' = <<>>
    /\ last_call' = Call("clear_objects", 0, 0)
    /\ UNCHANGED <<renderer_lights, lights>>
    /\ UNCHANGED <<surface_vars, aspect_ratio, camera_view, data_core_locked,
                   egui_vars, frame_vars>>

\* renderer.add_object: the renderer stores the object and issues the next
\* handle.
renderer_add_object(table, object) ==
    Append(table, [object |-> object, drops |-> 0])

add_mesh_as_object(mesh) ==
    /\ Len(renderer_objects) < MaxObjects
    /\ LET object == [mesh |-> mesh, material |-> "albedo(0.8,0.1,0.1,1.0)",
                      transform |-> "IDENTITY"]
       IN  /\ renderer_objects' = renderer_add_object(renderer_objects, object)
           /\ objects' = Append(objects, Len(renderer_objects'))
    /\ last_call' = Call("add_mesh_as_object", 0, 0)
    /\ UNCHANGED <<renderer_lights, lights>>
    /\ UNCHANGED <<surface_vars, aspect_ratio, camera_view, data_core_locked,
                   egui_vars, frame_vars>>

add_object(object) ==
    /\ Len(renderer_objects) < MaxObjects
    /\ renderer_objects' = renderer_add_object(renderer_objects, object)
    /\ objects' = Append(objects, Len(renderer_objects'))
    /\ last_call' = Call("add_object", 0, 0)
    /\ UNCHANGED <<renderer_lights, lights>>
    /\ UNCHANGED <<surface_vars, aspect_ratio, camera_view, data_core_locked,
                   egui_vars, frame_vars>>

add_light(light) ==
    /\ Len(renderer_lights) < MaxLights
    /\ renderer_lights' = Append(renderer_lights, [light |-> light, drops |-> 0])
    /\ lights' = Append(lights, Len(renderer_lights'))
    /\ last_call' = Call("add_light", 0, 0)
    /\ UNCHANGED <<renderer_objects, objects>>
    /\ UNCHANGED <<surface_vars, aspect_ratio, camera_view, data_core_locked,
                   egui_vars, frame_vars>>

\* -------------------------------------------------------- the camera

set_camera(view_matrix) ==
    /\ camera_view' = view_matrix
    /\ last_call' = Call("set_camera", 0, 0)
    /\ UNCHANGED <<surface_vars, aspect_ratio, data_core_locked, registry_vars,
                   egui_vars, frame_vars>>

\* The calls project_point makes on renderer.data_core: the guard is a
\* temporary of the `let`, dropped when the function returns.
\* A project_point whose guard outlives the call.
project_point_guard_kept == <<"lock", "view_proj">>

project_point_data_core_span == <<"lock", "view_proj", "drop">>

project_point ==
    /\ data_core_locked' = HeldAfter(data_core_locked, project_point_data_core_span)
    /\ last_call' = Call("project_point", 0, 0)
    /\ UNCHANGED <<surface_vars, aspect_ratio, camera_view, registry_vars,
                   egui_vars, frame_vars>>

\* --------------------------------------------------------- on_resize

\* An on_resize that derives the aspect ratio from the size the surface had
\* before it is reconfigured.
on_resize_stale_size(width, height) ==
    /\ surface_config' = [format |-> texture_format, width |-> width,
                          height |-> height, present_mode |-> "Mailbox"]
    /\ aspect_ratio' = FMul(FDiv(ToF32(surface_config.width),
                                 ToF32(surface_config.height)), Two)
    /\ last_call' = [Call("on_resize", width, height) EXCEPT
                        !.again = (last_call.op = "on_resize"
                                   /\ last_call.w = width
                                   /\ last_call.h = height)]
    /\ UNCHANGED <<texture_format, camera_view, data_core_locked, registry_vars,
                   egui_vars, frame_vars>>

on_resize(width, height) ==
    /\ surface_config' = [format |-> texture_format, width |-> width,
                          height |-> height, present_mode |-> "Mailbox"]
    /\ aspect_ratio' = FMul(FDiv(ToF32(width), ToF32(height)), Two)
    /\ last_call' = [Call("on_resize", width, height) EXCEPT
                        !.again = (last_call.op = "on_resize"
                                   /\ last_call.w = width
                                   /\ last_call.h = height)]
    /\ UNCHANGED <<texture_format, camera_view, data_core_locked, registry_vars,
                   egui_vars, frame_vars>>

\* ------------------------------------------------------ render_frame

\* The egui frame the caller starts before it builds the UIs and calls
\* render_frame: a pixels_per_point left by set_pixels_per_point takes
\* effect here, at the start of the next frame.
begin_frame ==
    /\ ~in_frame
    /\ in_frame' = TRUE
    /\ graph_ppp' = IF graph_new_ppp = NoF32 THEN graph_ppp ELSE graph_new_ppp
    /\ graph_new_ppp' = NoF32
    /\ last_call' = Call("begin_frame", 0, 0)
    /\ UNCHANGED <<surface_vars, aspect_ratio, camera_view, data_core_locked,
                   registry_vars, frame_vars>>

\* The statements of render_frame, each as its effect on the running
\* state st of the call: st.f is the record of the frame, st.aspect the
\* renderer's aspect ratio, st.locked the data_core guard, st.ppp and
\* st.new_ppp the nested egui context, st.in_frame its frame.
Called(st, name) == [st EXCEPT !.f.calls = Append(@, name)]

to_uvec2(v) == <<AsU32(v[1]), AsU32(v[2])>>

Vec2MulF32(v, k) == <<FMul(v[1], k), FMul(v[2], k)>>

\* The f32 expressions of render_frame over its arguments.
\* vwp_3d_res.x / vwp_3d_res.y
viewport_aspect_ratio(in) == FDiv(in.view_3d[1], in.view_3d[2])

\* to_uvec2(vwp_3d_res * main_egui.context().pixels_per_point())
viewport_resolution(in) == to_uvec2(Vec2MulF32(in.view_3d, in.ppp))

\* The arguments of graph_egui_routine.resize.
resize_arguments(in) ==
    <<AsU32(FMul(FMul(in.node_graph[1], in.zoom), in.ppp)),
      AsU32(FMul(FMul(in.node_graph[2], in.zoom), in.ppp)),
      One>>

\* The zoom itself where its inverse is meant.
inverse_zoom_not_inverted(in) == in.zoom

\* 1.0 / zoom_level
inverse_zoom(in) == FDiv(One, in.zoom)

\* A target whose resolution is rounded to the nearest pixel.
render_target_resolution_rounded(in) ==
    <<RoundU32(FMul(in.node_graph[1], in.ppp)),
      RoundU32(FMul(in.node_graph[2], in.ppp))>>

\* A target that grows with the zoom, as the resize arguments do.
render_target_resolution_zoomed(in) ==
    to_uvec2(Vec2MulF32(Vec2MulF32(in.node_graph, in.zoom), in.ppp))

\* to_uvec2(grph_3d_res * ppp)
render_target_resolution(in) == to_uvec2(Vec2MulF32(in.node_graph, in.ppp))

\* The zoom_level handed to add_sub_ui_to_graph.
clip_zoom(in) == in.zoom

\* The expressions above, tabulated over the arguments (joining the empty
\* function with @@ makes TLC build the table once instead of evaluating
\* the expressions again in every state).
FrameArithmetic ==
    <<>> @@
    [in \in FrameInputs |->
        [aspect |-> viewport_aspect_ratio(in),
         viewport_res |-> viewport_resolution(in),
         resize |-> resize_arguments(in),
         inverse_zoom |-> inverse_zoom(in),
         target_res |-> render_target_resolution(in),
         clip_zoom |-> clip_zoom(in)]]

renderer_ready(st) ==
    [Called(st, "renderer.ready") EXCEPT !.f.ready = TRUE]

RenderGraph_new(st) ==
    [Called(st, "RenderGraph::new") EXCEPT
        !.f.graph = [state |-> "building", nodes |-> <<>>]]

\* A frame that leaves the aspect ratio as it finds it.
set_aspect_ratio_skipped(st, in) == Called(st, "set_aspect_ratio")

set_aspect_ratio(st, in) ==
    [Called(st, "set_aspect_ratio") EXCEPT
        !.aspect = FrameArithmetic[in].aspect]

blackjack_viewport_rendergraph(st, in) ==
    [Called(st, "blackjack_viewport_rendergraph") EXCEPT
        !.f.graph.nodes = Append(@, "viewport"),
        !.f.viewport_res = FrameArithmetic[in].viewport_res]

graph_egui_routine_resize(st, in) ==
    [Called(st, "graph_egui_routine.resize") EXCEPT
        !.f.resize = FrameArithmetic[in].resize]

set_pixels_per_point(st, in) ==
    [Called(st, "graph_egui.set_pixels_per_point") EXCEPT
        !.f.reported_scale = FrameArithmetic[in].inverse_zoom,
        !.new_ppp = FrameArithmetic[in].inverse_zoom]

add_render_target(st, in) ==
    [Called(st, "graph.add_render_target") EXCEPT
        !.f.target_res = FrameArithmetic[in].target_res]

graph_egui_end_frame(st) == Called(st, "graph_egui.end_frame")

graph_egui_tessellate(st) ==
    [Called(st, "graph_egui.tessellate") EXCEPT !.f.tess_scale = st.ppp]

add_sub_ui_to_graph(st, in) ==
    [Called(st, "add_sub_ui_to_graph") EXCEPT
        !.f.graph.nodes = Append(@, "sub_ui"),
        !.f.clip_scale = FrameArithmetic[in].clip_zoom]

main_egui_end_frame(st) ==
    [Called(st, "main_egui.end_frame") EXCEPT !.in_frame = FALSE]

main_egui_tessellate(st) == Called(st, "main_egui.tessellate")

add_surface_texture(st) == Called(st, "graph.add_surface_texture")

add_main_egui_to_graph(st) ==
    [Called(st, "add_main_egui_to_graph") EXCEPT
        !.f.graph.nodes = Append(@, "main_egui")]

\* graph.execute: the one GPU submission, recorded with the graph it is
\* given, the aspect ratio of the camera and the data_core guard at that
\* moment.
graph_execute(st) ==
    [Called(st, "graph.execute") EXCEPT
        !.f.graph.state = "executed",
        !.f.submissions = Append(@, [nodes |-> st.f.graph.nodes,
                                     ready |-> st.f.ready,
                                     aspect |-> st.aspect,
                                     locked |-> st.locked])]

\* A body that submits the graph before the compositing pass is added.
render_frame_body_early_execute(st, in) ==
    LET s1 == renderer_ready(st)
        s2 == RenderGraph_new(s1)
        s3 == set_aspect_ratio(s2, in)
        s4 == blackjack_viewport_rendergraph(s3, in)
        s5 == graph_egui_routine_resize(s4, in)
        s6 == set_pixels_per_point(s5, in)
        s7 == add_render_target(s6, in)
        s8 == graph_egui_end_frame(s7)
        s9 == graph_egui_tessellate(s8)
        s10 == add_sub_ui_to_graph(s9, in)
        s11 == main_egui_end_frame(s10)
        s12 == main_egui_tessellate(s11)
        s13 == add_surface_texture(s12)
        s14 == graph_execute(s13)
    IN  add_main_egui_to_graph(s14)

\* The body of render_frame, statement by statement.
render_frame_body(st, in) ==
    LET s1 == renderer_ready(st)
        s2 == RenderGraph_new(s1)
        s3 == set_aspect_ratio(s2, in)
        s4 == blackjack_viewport_rendergraph(s3, in)
        s5 == graph_egui_routine_resize(s4, in)
        s6 == set_pixels_per_point(s5, in)
        s7 == add_render_target(s6, in)
        s8 == graph_egui_end_frame(s7)
        s9 == graph_egui_tessellate(s8)
        s10 == add_sub_ui_to_graph(s9, in)
        s11 == main_egui_end_frame(s10)
        s12 == main_egui_tessellate(s11)
        s13 == add_surface_texture(s12)
        s14 == add_main_egui_to_graph(s13)
    IN  graph_execute(s14)

\* What of a frame is kept to compare the next one with.
NestedUiOf(f) ==
    [rendered |-> f.rendered, node_graph |-> f.node_graph, ppp |-> f.ppp,
     zoom |-> f.zoom, resize |-> f.resize, reported_scale |-> f.reported_scale,
     target_res |-> f.target_res, clip_scale |-> f.clip_scale]

render_frame(in) ==
    /\ in_frame
    /\ LET st == [f |-> [NoFrame EXCEPT !.rendered = TRUE,
                                        !.after = last_call.op,
                                        !.aspect_before = aspect_ratio,
                                        !.view_3d = in.view_3d,
                                        !.node_graph = in.node_graph,
                                        !.ppp = in.ppp,
                                        !.zoom = in.zoom,
                                        !.graph = frame.graph,
                                        !.resize = frame.resize],
                  aspect |-> aspect_ratio,
                  locked |-> data_core_locked,
                  ppp |-> graph_ppp,
                  new_ppp |-> graph_new_ppp,
                  in_frame |-> in_frame]
       IN  \E end \in {render_frame_body(st, in)} :
           /\ frame' = end.f
           /\ aspect_ratio' = end.aspect
           /\ data_core_locked' = end.locked
           /\ graph_ppp' = end.ppp
           /\ graph_new_ppp' = end.new_ppp
           /\ in_frame' = end.in_frame
    /\ prev' = NestedUiOf(frame)
    /\ last_call' = Call("render_frame", 0, 0)
    /\ UNCHANGED <<surface_vars, camera_view, registry_vars>>

\* --------------------------------------------------- specifications

FrameNext ==
    \/ begin_frame
    \/ \E in \in FrameInputs : render_frame(in)
    \/ \E size \in WindowSizes : on_resize(size[1], size[2])

\* Frames and resizes.
SpecFrame == Init /\ [][FrameNext]_vars

RegistryNext ==
    \/ \E size \in WindowSizes : on_resize(size[1], size[2])
    \/ \E view_matrix \in ViewMatrices : set_camera(view_matrix)
    \/ project_point
    \/ \E mesh \in Meshes : add_mesh_as_object(mesh)
    \/ \E object \in PrebuiltObjects : add_object(object)
    \/ \E light \in DirectionalLights : add_light(light)
    \/ clear_objects

\* The resource registry, with the operations that do not render.
SpecRegistry == Init /\ [][RegistryNext]_vars

CameraNext ==
    \/ \E view_matrix \in ViewMatrices : set_camera(view_matrix)
    \/ project_point
    \/ begin_frame
    \/ \E in \in FrameInputs : render_frame(in)

\* The camera and the frames that read it.
SpecCamera == Init /\ [][CameraNext]_vars

\* Every operation of the RenderContext.
Next == FrameNext \/ RegistryNext \/ CameraNext

Spec == Init /\ [][Next]_vars

\* ------------------------------------------------------------ claims

SameNestedInputs ==
    /\ frame.rendered
    /\ prev.rendered
    /\ prev.node_graph = frame.node_graph
    /\ prev.ppp = frame.ppp

\* C1 as claimed: the scale reported to the nested UI is 1 / zoom_level and
\* the off-screen target has the resolution round(panel_size *
\* pixels_per_point), the same at every zoom_level.
C1_ScaleAndRoundedResolution ==
    /\ frame.rendered =>
        /\ frame.reported_scale = FDiv(One, frame.zoom)
        /\ frame.target_res = <<RoundU32(FMul(frame.node_graph[1], frame.ppp)),
                                RoundU32(FMul(frame.node_graph[2], frame.ppp))>>
    /\ SameNestedInputs => frame.target_res = prev.target_res

\* C1 amended: the scale reported to the nested UI is the f32 quotient
\* 1.0 / zoom_level and the off-screen target has the resolution of
\* panel_size * pixels_per_point truncated toward zero (not rounded), the
\* same at every zoom_level; a panel of (800, 600) at pixels_per_point 2
\* gets (1600, 1200), with scale 1 at zoom 1 and 1/2 at zoom 2.
C1_ScaleAndTruncatedResolution ==
    /\ frame.rendered =>
        /\ frame.reported_scale = FDiv(One, frame.zoom)
        /\ frame.target_res = <<AsU32(FMul(frame.node_graph[1], frame.ppp)),
                                AsU32(FMul(frame.node_graph[2], frame.ppp))>>
        /\ (frame.node_graph = <<ToF32(800), ToF32(600)>> /\ frame.ppp = Two)
              => frame.target_res = <<1600, 1200>>
        /\ frame.zoom = One => frame.reported_scale = One
        /\ frame.zoom = Two => frame.reported_scale = Norm(1, -1)
    /\ SameNestedInputs => frame.target_res = prev.target_res

\* Two frames of the panel (401.5, 300.75) at different zooms: the target
\* is (401, 300) in both.
C1_Witness ==
    /\ SameNestedInputs
    /\ prev.zoom # frame.zoom
    /\ frame.node_graph = <<Norm(803, -1), Norm(1203, -2)>>
    /\ frame.ppp = One
    /\ frame.target_res = <<401, 300>>

\* C2 as claimed: for a fixed panel size and pixels_per_point, the size
\* given to the nested UI routine's resize and the resolution of the
\* off-screen target are the same for any two zoom levels.
C2_ZoomNeverChangesResolution ==
    SameNestedInputs =>
        /\ frame.resize = prev.resize
        /\ frame.target_res = prev.target_res

\* C2 amended: for a fixed panel size and pixels_per_point, the resolution
\* of the off-screen target is the same for any two zoom levels, while the
\* size given to the nested UI routine's resize is panel_size * zoom_level
\* * pixels_per_point truncated toward zero, with scale factor 1.0, and so
\* follows the zoom.
C2_TargetFixedResizeFollowsZoom ==
    /\ SameNestedInputs => frame.target_res = prev.target_res
    /\ frame.rendered =>
          frame.resize =
              <<AsU32(FMul(FMul(frame.node_graph[1], frame.zoom), frame.ppp)),
                AsU32(FMul(FMul(frame.node_graph[2], frame.zoom), frame.ppp)),
                One>>

\* The panel (800, 600) at pixels_per_point 2, first at zoom 1 and then at
\* zoom 2: the target stays (1600, 1200), resize gets (3200, 2400).
C2_Witness ==
    /\ SameNestedInputs
    /\ frame.node_graph = <<ToF32(800), ToF32(600)>>
    /\ frame.ppp = Two
    /\ prev.zoom = One
    /\ frame.zoom = Two
    /\ prev.target_res = <<1600, 1200>>
    /\ frame.target_res = <<1600, 1200>>
    /\ prev.resize = <<1600, 1200, One>>
    /\ frame.resize = <<3200, 2400, One>>

\* C3 as claimed, for every frame that follows another: the nested UI layer
\* tessellates its primitives under the scale 1 / zoom_level of the frame's
\* own zoom_level, not under the scale of the previous frame's zoom_level.
C3_TessellatedUnderFrameScale ==
    (frame.rendered /\ prev.rendered) =>
        frame.tess_scale = FDiv(One, frame.zoom)

IsPrefix(s, t) == Len(s) <= Len(t) /\ SubSeq(t, 1, Len(s)) = s

\* C4: clear_objects leaves the object list empty and the light list as it
\* was; every other operation keeps the object handles it finds (it can
\* only append), and no operation removes a light handle.
C4_ClearObjectsKeepsLights ==
    [][/\ last_call'.op = "clear_objects" => objects' = <<>> /\ lights' = lights
       /\ last_call'.op # "clear_objects" => IsPrefix(objects, objects')
       /\ IsPrefix(lights, lights')]_vars

\* Objects and a light were added and clear_objects has just run.
C4_Witness ==
    /\ last_call.op = "clear_objects"
    /\ Len(renderer_objects) >= 2
    /\ Len(lights) >= 1
    /\ objects = <<>>

Tracked(h) == \E i \in DOMAIN objects : objects[i] = h

\* C5: the handle of every object added is dropped exactly once, by the
\* clear_objects that takes it off the list: not while it is on the list
\* and not again by a later clear_objects.
C5_ReleasedExactlyOnce ==
    \A h \in DOMAIN renderer_objects :
        renderer_objects[h].drops = (IF Tracked(h) THEN 0 ELSE 1)

\* An object cleared earlier, and one added since that is still tracked.
C5_Witness ==
    \E h1, h2 \in DOMAIN renderer_objects :
        /\ h1 < h2
        /\ renderer_objects[h1].drops = 1
        /\ Tracked(h2)
        /\ renderer_objects[h2].drops = 0

\* C6: an on_resize(w, h) right after an on_resize(w, h) leaves the surface
\* configuration and the aspect ratio as the first call set them.
C6_ResizeIdempotent ==
    [][(last_call.op = "on_resize" /\ last_call'.op = "on_resize"
        /\ last_call'.w = last_call.w /\ last_call'.h = last_call.h)
       => (surface_config' = surface_config /\ aspect_ratio' = aspect_ratio)]_vars

\* on_resize has been called twice in a row with one size.
C6_Witness == last_call.op = "on_resize" /\ last_call.again

\* C7 as claimed: for a fixed panel and pixels_per_point, the frame with the
\* larger zoom reports a strictly smaller scale and passes a strictly
\* larger clip correction.
C7_StrictlyMonotone ==
    (SameNestedInputs /\ FLess(prev.zoom, frame.zoom)) =>
        /\ FLess(frame.reported_scale, prev.reported_scale)
        /\ FLess(prev.clip_scale, frame.clip_scale)

\* C7 amended: for a fixed panel and pixels_per_point, the frame with the
\* larger zoom reports a scale that is smaller or equal (1.0 / zoom_level
\* is rounded to f32, and two neighbouring zooms can share a quotient) and
\* passes a strictly larger clip correction.
C7_Monotone ==
    /\ (SameNestedInputs /\ FLess(prev.zoom, frame.zoom)) =>
          /\ ~FLess(prev.reported_scale, frame.reported_scale)
          /\ FLess(prev.clip_scale, frame.clip_scale)
    /\ (SameNestedInputs /\ FLess(frame.zoom, prev.zoom)) =>
          /\ ~FLess(frame.reported_scale, prev.reported_scale)
          /\ FLess(frame.clip_scale, prev.clip_scale)

\* Two frames at the neighbouring zooms 2 - 2^-22 and 2 - 2^-23: the
\* reported scale is the same.
C7_Witness ==
    /\ SameNestedInputs
    /\ prev.zoom = <<MantHi - 2, -23>>
    /\ frame.zoom = <<MantHi - 1, -23>>
    /\ frame.reported_scale = prev.reported_scale

Positions(name) == {i \in DOMAIN frame.calls : frame.calls[i] = name}

Before(a, b) == \A i \in Positions(a), j \in Positions(b) : i < j

GraphBuilders ==
    {"blackjack_viewport_rendergraph", "graph.add_render_target",
     "add_sub_ui_to_graph", "graph.add_surface_texture",
     "add_main_egui_to_graph"}

\* C8: a frame calls renderer.ready, then creates an empty graph, adds the
\* viewport, nested-UI and compositing passes to it and calls graph.execute
\* once, as its last step; that is the only GPU submission, and the graph
\* submitted holds the passes of this frame only.
C8_ReadyBuildExecute ==
    frame.rendered =>
        /\ \A name \in GraphBuilders \cup {"renderer.ready", "RenderGraph::new",
                                           "graph.execute"} :
              Cardinality(Positions(name)) = 1
        /\ Before("renderer.ready", "RenderGraph::new")
        /\ \A name \in GraphBuilders :
              Before("RenderGraph::new", name) /\ Before(name, "graph.execute")
        /\ frame.calls[Len(frame.calls)] = "graph.execute"
        /\ Len(frame.submissions) = 1
        /\ frame.submissions[1].ready
        /\ frame.submissions[1].nodes = <<"viewport", "sub_ui", "main_egui">>
        /\ frame.graph.state = "executed"

\* A second frame has been rendered.
C8_Witness ==
    /\ frame.rendered
    /\ prev.rendered
    /\ Len(frame.submissions) = 1

\* C9: the aspect ratio the camera has when a frame's graph is executed is
\* width / height of that frame's 3D viewport, whatever on_resize or an
\* earlier frame set.
C9_AspectOfThisFrame ==
    frame.rendered =>
        \A i \in DOMAIN frame.submissions :
            frame.submissions[i].aspect = FDiv(frame.view_3d[1], frame.view_3d[2])

\* A frame rendered after an earlier frame and an on_resize(1920, 1080),
\* which left the camera its own aspect ratio.
C9_Witness ==
    /\ frame.rendered
    /\ prev.rendered
    /\ frame.aspect_before = FMul(FDiv(ToF32(1920), ToF32(1080)), Two)
    /\ Len(frame.submissions) = 1
    /\ frame.submissions[1].aspect # frame.aspect_before

\* C10: the data_core guard is not held when an operation returns, and it
\* is not held when render_frame calls graph.execute.
C10_NoLockAtSubmission ==
    /\ ~data_core_locked
    /\ \A i \in DOMAIN frame.submissions : ~frame.submissions[i].locked

\* A frame rendered right after a project_point.
C10_Witness ==
    /\ frame.rendered
    /\ frame.after = "project_point"
    /\ Len(frame.submissions) = 1

====
